---- MODULE Spec2Model ----
(***************************************************************************)
(* str_indices, module chars: conversion between byte offsets and char     *)
(* offsets of UTF-8 text (count, from_byte_idx, to_byte_idx), over the     *)
(* ByteChunk abstraction (16 byte lanes, wrapping per-lane addition).      *)
(*                                                                         *)
(* A text is a sequence of bytes (0..255).  A buffer is a text together    *)
(* with the residue `addr` of its start address modulo the chunk           *)
(* alignment, which decides how align_to splits it into head, middle and   *)
(* tail.  The functions are pure: each is an operator computed the way the *)
(* code computes it, and an action of the state machine is one call on the *)
(* buffer; the state keeps the call's result, a record `run` of the phases *)
(* it went through, and the call before it.                                *)
(*                                                                         *)
(* A loop of the code is a recursion on the loop's state, one iteration    *)
(* per step in the code's order.  So that the evaluation stays shallow on  *)
(* long texts, each loop is written in two levels (Stride iterations in    *)
(* the inner one), and a value that several later steps read is handed on  *)
(* as an operator argument, so each phase of a function is an operator on  *)
(* the results of the phases before it.                                    *)
(***************************************************************************)
EXTENDS Integers, Sequences, FiniteSets, TLC

Min(a, b) == IF a <= b THEN a ELSE b
\* loops are unrolled Stride iterations at a time (evaluation depth only)
Stride == 16
Max(a, b) == IF a >= b THEN a ELSE b

(***************************************************************************)
(* Byte arithmetic.                                                        *)
(***************************************************************************)
RECURSIVE BitAndBits(_, _)
\* bitwise AND, bit by bit
BitAndBits(x, y) ==
    IF x = 0 \/ y = 0 THEN 0
    ELSE (x % 2) * (y % 2) + 2 * BitAndBits(x \div 2, y \div 2)

\* bitwise AND with 0xC0, tabulated over the bytes
AndC0 == [x \in 0..255 |-> BitAndBits(x, 192)]

\* u8 `&`
BitAnd(x, y) == IF y = 192 THEN AndC0[x] ELSE BitAndBits(x, y)

\* (byte & 0xC0) == 0x80 : the byte is a UTF-8 continuation byte
is_cont(byte) == BitAnd(byte, 192) = 128

\* ((byte & 0xC0) != 0x80) as usize
is_start_as_usize(byte) == IF BitAnd(byte, 192) # 128 THEN 1 ELSE 0

\* mutant: the mask 0x80 for 0xC0
is_cont_as_usize_mask80(byte) == IF BitAnd(byte, 128) = 128 THEN 1 ELSE 0

\* ((byte & 0xC0) == 0x80) as usize
is_cont_as_usize(byte) == IF BitAnd(byte, 192) = 128 THEN 1 ELSE 0

(***************************************************************************)
(* The ByteChunk abstraction (crate::byte_chunk).                          *)
(***************************************************************************)
\* T::SIZE of Chunk: the lane count
SIZE == 16
\* T::MAX_ACC of Chunk: additions of 0/1 lanes that cannot overflow a lane
MAX_ACC == 255
\* one more than the largest value of a byte lane
LaneMod == 256

\* the chunk type the public functions are instantiated with
Chunk == [SIZE |-> SIZE, MAX_ACC |-> MAX_ACC]

\* core::mem::size_of::<T>()
size_of(T) == T.SIZE

zero(T) == [i \in 1..T.SIZE |-> 0]
splat(T, byte) == [i \in 1..T.SIZE |-> byte]
bitand(a, b) == [i \in DOMAIN a |-> BitAnd(a[i], b[i])]
cmp_eq_byte(a, byte) == [i \in DOMAIN a |-> IF a[i] = byte THEN 1 ELSE 0]
\* per-lane addition, wrapping
add(a, b) == [i \in DOMAIN a |-> (a[i] + b[i]) % LaneMod]
RECURSIVE SumTo(_, _)
SumTo(a, n) == IF n = 0 THEN 0 ELSE a[n] + SumTo(a, n - 1)
\* horizontal sum of the lanes
sum_bytes(a) == SumTo(a, Len(a))

(***************************************************************************)
(* Region split.  <[u8]>::align_to::<T>() as the library computes it for a *)
(* type whose alignment equals its size: the head runs up to the first     *)
(* aligned address (the whole slice when that lies past its end), the      *)
(* middle is every whole chunk after it.  Regions are given by length.     *)
(***************************************************************************)
align_to(text, addr, T) ==
    LET offset == (T.SIZE - (addr % T.SIZE)) % T.SIZE
        len == Len(text)
    IN  IF offset > len
        THEN [start |-> len, middle |-> 0, end |-> 0]
        ELSE [start |-> offset,
              middle |-> (len - offset) \div T.SIZE,
              end |-> (len - offset) % T.SIZE]

\* middle[k] (k from 0) of a split whose head has `start` bytes
chunk_at(T, text, start, k) ==
    SubSeq(text, start + k * T.SIZE + 1, start + (k + 1) * T.SIZE)

\* mutant: the mask 0x80 for 0xc0
cont_lanes_mask80(T, chunk) == cmp_eq_byte(bitand(chunk, splat(T, 128)), 128)

\* chunk.bitand(T::splat(0xc0)).cmp_eq_byte(0x80)
cont_lanes(T, chunk) == cmp_eq_byte(bitand(chunk, splat(T, 192)), 128)

\* the value of a panic (a failed assert_eq!, an arithmetic overflow)
PANIC == -1

RECURSIVE count_conts_run(_, _, _, _)
\* at most Stride iterations of the loop below
count_conts_run(text, from, to, inv_count) ==
    IF from >= to THEN inv_count
    ELSE count_conts_run(text, from + 1, to,
                         inv_count + is_cont_as_usize(text[from + 1]))

RECURSIVE count_conts(_, _, _, _)
\* for byte in text[from .. to].iter() { inv_count += ((byte & 0xC0) == 0x80) as usize; }
\* (offsets from 0), run Stride iterations at a time; inv_count is a usize
count_conts(text, from, to, inv_count) ==
    IF from >= to THEN inv_count
    ELSE IF inv_count >= 0
    THEN count_conts(text, from + Stride, to,
                     count_conts_run(text, from, Min(from + Stride, to), inv_count))
    ELSE inv_count

RECURSIVE count_starts_run(_, _, _, _)
\* at most Stride terms of the sum below
count_starts_run(text, from, to, sum) ==
    IF from >= to THEN sum
    ELSE count_starts_run(text, from + 1, to, sum + is_start_as_usize(text[from + 1]))

RECURSIVE count_starts(_, _, _, _)
\* text[from .. to].iter().map(|byte| ((byte & 0xC0) != 0x80) as usize).sum()
\* (offsets from 0), summed Stride terms at a time; the sum is a usize
count_starts(text, from, to, sum) ==
    IF from >= to THEN sum
    ELSE IF sum >= 0
    THEN count_starts(text, from + Stride, to,
                      count_starts_run(text, from, Min(from + Stride, to), sum))
    ELSE sum

\* the accumulator at the start of a round: let mut acc = T::zero();
\* `carried` records whether a lane addition wrapped
round_start(T) == [acc |-> zero(T), carried |-> FALSE]

\* acc.add(lanes), recording a wrap
add_lanes(T, st, lanes) ==
    [acc |-> add(st.acc, lanes),
     carried |-> st.carried \/ \E i \in 1..T.SIZE : st.acc[i] + lanes[i] >= LaneMod]

\* acc = acc.add(chunk.bitand(T::splat(0xc0)).cmp_eq_byte(0x80)) for middle[k]
round_step(T, text, start, k, st) ==
    add_lanes(T, st, cont_lanes(T, chunk_at(T, text, start, k)))

RECURSIVE round_acc_run(_, _, _, _, _, _)
\* the iterations k .. n-1 of `for chunk in round.iter()`, at most Stride of them
round_acc_run(T, text, start, k, n, st) ==
    IF k >= n THEN st
    ELSE round_acc_run(T, text, start, k + 1, n, round_step(T, text, start, k, st))

RECURSIVE round_acc(_, _, _, _, _, _)
\* for chunk in round.iter() { acc = acc.add(...) } over middle[k .. n],
\* run Stride iterations at a time
round_acc(T, text, start, k, n, st) ==
    IF k >= n THEN st
    ELSE IF st.carried \in BOOLEAN
    THEN round_acc(T, text, start, Min(k + Stride, n), n,
                   round_acc_run(T, text, start, k, Min(k + Stride, n), st))
    ELSE st

\* mutant: groups of MAX_ACC + 1 chunks
count_round_len_plus_one(T, left) == Min(T.MAX_ACC + 1, left)

\* the length of the next group of middle.chunks(T::MAX_ACC), `left` chunks remaining
count_round_len(T, left) == Min(T.MAX_ACC, left)

RECURSIVE MaxTo(_, _)
MaxTo(a, n) == IF n = 0 THEN 0 ELSE Max(a[n], MaxTo(a, n - 1))
\* the largest lane of a chunk
peak_lane(a) == MaxTo(a, Len(a))

\* a round as logged: its first chunk, length, horizontal sum (acc.sum_bytes()),
\* largest lane and wrap flag
round_log(k, len, st) ==
    [first |-> k, len |-> len, sum |-> sum_bytes(st.acc),
     peak |-> peak_lane(st.acc), carried |-> st.carried]

\* One group of middle.chunks(T::MAX_ACC), from chunk k of n:
\*   let mut acc = T::zero(); for chunk in chunks.iter() { acc = acc.add(...) }
\*   inv_count += acc.sum_bytes();
count_round(T, text, start, k, n) ==
    round_log(k, count_round_len(T, n - k),
              round_acc(T, text, start, k, k + count_round_len(T, n - k), round_start(T)))

\* the group r is done: st.k is the first chunk not yet in st.rounds
round_push(st, r) == [k |-> st.k + r.len, rounds |-> Append(st.rounds, r)]

RECURSIVE count_middle_run(_, _, _, _, _, _)
\* at most `fuel` groups of the loop below
count_middle_run(T, text, start, n, fuel, st) ==
    IF st.k >= n \/ fuel = 0 THEN st
    ELSE count_middle_run(T, text, start, n, fuel - 1,
                          round_push(st, count_round(T, text, start, st.k, n)))

RECURSIVE count_middle(_, _, _, _, _)
\* for chunks in middle.chunks(T::MAX_ACC) { ... }, Stride groups at a time
count_middle(T, text, start, n, st) ==
    IF st.k >= n THEN st
    ELSE count_middle(T, text, start, n, count_middle_run(T, text, start, n, Stride, st))

RECURSIVE SumOfRoundsRun(_, _, _)
SumOfRoundsRun(rounds, from, to) ==
    IF from > to THEN 0 ELSE rounds[from].sum + SumOfRoundsRun(rounds, from + 1, to)
RECURSIVE SumOfRoundsFrom(_, _)
SumOfRoundsFrom(rounds, from) ==
    IF from > Len(rounds) THEN 0
    ELSE SumOfRoundsRun(rounds, from, Min(from + Stride - 1, Len(rounds)))
           + SumOfRoundsFrom(rounds, from + Stride)
\* the sum of the rounds' horizontal sums
SumOfRounds(rounds) == SumOfRoundsFrom(rounds, 1)

\* text.len() - inv_count, inv_count taken over the head, the rounds of the
\* middle and the tail in that order
count_regions(text, parts, rounds) ==
    [value |-> Len(text)
                 - count_conts(text, Len(text) - parts.end, Len(text),
                               count_conts(text, 0, parts.start, 0) + SumOfRounds(rounds)),
     chunked |-> TRUE, start |-> parts.start, rounds |-> rounds]

\* the chunked branch of count_impl, on the split `parts`
count_chunked(T, text, parts) ==
    count_regions(text, parts,
                  count_middle(T, text, parts.start, parts.middle,
                               [k |-> 0, rounds |-> <<>>]).rounds)

\* count_impl::<T>(text), with the accumulation rounds it went through
count_impl_run(T, text, addr) ==
    IF size_of(T) # 16
    THEN [value |-> PANIC, chunked |-> FALSE, start |-> 0, rounds |-> <<>>]
    ELSE IF Len(text) < T.SIZE
    THEN [value |-> count_starts(text, 0, Len(text), 0),
          chunked |-> FALSE, start |-> 0, rounds |-> <<>>]
    ELSE count_chunked(T, text, align_to(text, addr, T))

count_impl(T, text, addr) == count_impl_run(T, text, addr).value

\* pub fn count(text: &str) -> usize
count(text, addr) == count_impl(Chunk, text, addr)

\* pub fn count_inline(text: &str) -> usize
count_inline(text, addr) == count_impl(Chunk, text, addr)

(***************************************************************************)
(* Seek engine: to_byte_idx_impl::<T>(text, char_idx).                     *)
(***************************************************************************)
\* mutant: the break taken when char_count reaches char_idx
scan_step_ge(text, pos, char_idx, st) ==
    LET cc == st.char_count + is_start_as_usize(text[pos])
    IN  IF cc >= char_idx
        THEN [char_count |-> cc, byte_count |-> st.byte_count, broke |-> TRUE]
        ELSE [char_count |-> cc, byte_count |-> st.byte_count + 1, broke |-> FALSE]

\* One iteration of the byte loops of to_byte_idx_impl, on text[pos] (1-based):
\*   char_count += ((*byte & 0xC0) != 0x80) as usize;
\*   if char_count > char_idx { break; }
\*   byte_count += 1;
scan_step(text, pos, char_idx, st) ==
    LET cc == st.char_count + is_start_as_usize(text[pos])
    IN  IF cc > char_idx
        THEN [char_count |-> cc, byte_count |-> st.byte_count, broke |-> TRUE]
        ELSE [char_count |-> cc, byte_count |-> st.byte_count + 1, broke |-> FALSE]

RECURSIVE scan_run(_, _, _, _, _)
\* the iterations on text[pos .. to] of a byte loop, at most Stride of them
scan_run(text, pos, to, char_idx, st) ==
    IF pos > to \/ st.broke THEN st
    ELSE scan_run(text, pos + 1, to, char_idx, scan_step(text, pos, char_idx, st))

RECURSIVE scan_bytes(_, _, _, _, _)
\* for byte in text[pos ..= to].iter() { ... }, run Stride iterations at a time
scan_bytes(text, pos, to, char_idx, st) ==
    IF pos > to \/ st.broke THEN st
    ELSE scan_bytes(text, pos + Stride, to, char_idx,
                    scan_run(text, pos, Min(pos + Stride - 1, to), char_idx, st))

\* the counters before a byte loop
scan_from(char_count, byte_count) ==
    [char_count |-> char_count, byte_count |-> byte_count, broke |-> FALSE]

\* char_idx.saturating_sub(char_count)
saturating_sub(a, b) == IF a >= b THEN a - b ELSE 0

\* mutant: the distance in chars taken for a number of chunks
fast_max_round_len_undivided(T, char_idx, char_count) ==
    saturating_sub(char_idx, char_count)

\* let mut max_round_len = char_idx.saturating_sub(char_count) / T::MAX_ACC;
fast_max_round_len(T, char_idx, char_count) ==
    saturating_sub(char_idx, char_count) \div T.MAX_ACC

\* mutant: rounds of up to MAX_ACC + 1 chunks
fast_round_len_plus_one(T, max_round_len, left) ==
    Min(Min(T.MAX_ACC + 1, max_round_len), left)

\* let round_len = T::MAX_ACC.min(max_round_len).min(chunks.len());
fast_round_len(T, max_round_len, left) == Min(Min(T.MAX_ACC, max_round_len), left)

\* The end of a fast-path round of round_len chunks accumulated into r:
\*   max_round_len -= round_len; chunks = &chunks[round_len..];
\*   char_count += (T::SIZE * round_len) - acc.sum_bytes();
\*   byte_count += T::SIZE * round_len;
\* st.k chunks of the middle are consumed; st.rounds logs, per round, its first
\* chunk, length, horizontal sum, largest lane, wrap flag and the counters after it.
fast_round(T, st, round_len, r) ==
    LET sum == sum_bytes(r.acc)
        cc == st.char_count + (T.SIZE * round_len) - sum
        bc == st.byte_count + T.SIZE * round_len
    IN  [k |-> st.k + round_len,
         max_round_len |-> st.max_round_len - round_len,
         char_count |-> cc,
         byte_count |-> bc,
         rounds |-> Append(st.rounds,
                           [first |-> st.k, len |-> round_len, sum |-> sum,
                            peak |-> peak_lane(r.acc), carried |-> r.carried,
                            char_count |-> cc, byte_count |-> bc])]

RECURSIVE fast_rounds(_, _, _, _, _)
\* while max_round_len > 0 && !chunks.is_empty() { ... }, n chunks in the middle
fast_rounds(T, text, start, n, st) ==
    IF ~(st.max_round_len > 0 /\ st.k < n) THEN st
    ELSE fast_rounds(T, text, start, n,
            fast_round(T, st, fast_round_len(T, st.max_round_len, n - st.k),
                       round_acc(T, text, start, st.k,
                                 st.k + fast_round_len(T, st.max_round_len, n - st.k),
                                 round_start(T))))

\* mutant: the chunk committed without advancing the byte counter
slow_step_no_advance(T, text, start, char_idx, st) ==
    LET new_char_count ==
            st.char_count + T.SIZE
              - sum_bytes(cont_lanes(T, chunk_at(T, text, start, st.k)))
    IN  IF new_char_count >= char_idx
        THEN [st EXCEPT !.broke = TRUE, !.new_char_count = new_char_count]
        ELSE [st EXCEPT !.k = st.k + 1, !.char_count = new_char_count]

\* mutant: the break tested on the count before the chunk
slow_step_late_break(T, text, start, char_idx, st) ==
    LET new_char_count ==
            st.char_count + T.SIZE
              - sum_bytes(cont_lanes(T, chunk_at(T, text, start, st.k)))
    IN  IF st.char_count >= char_idx
        THEN [st EXCEPT !.broke = TRUE, !.new_char_count = new_char_count]
        ELSE [st EXCEPT !.k = st.k + 1,
                        !.char_count = new_char_count,
                        !.byte_count = st.byte_count + T.SIZE]

\* One iteration of the slow path, on middle[st.k]:
\*   let new_char_count = char_count + T::SIZE - chunk...sum_bytes();
\*   if new_char_count >= char_idx { break; }
\*   char_count = new_char_count; byte_count += T::SIZE;
slow_step(T, text, start, char_idx, st) ==
    LET new_char_count ==
            st.char_count + T.SIZE
              - sum_bytes(cont_lanes(T, chunk_at(T, text, start, st.k)))
    IN  IF new_char_count >= char_idx
        THEN [st EXCEPT !.broke = TRUE, !.new_char_count = new_char_count]
        ELSE [st EXCEPT !.k = st.k + 1,
                        !.char_count = new_char_count,
                        !.byte_count = st.byte_count + T.SIZE]

RECURSIVE slow_run(_, _, _, _, _, _)
\* the slow path up to chunk `to` (exclusive), at most Stride iterations
slow_run(T, text, start, to, char_idx, st) ==
    IF st.k >= to \/ st.broke THEN st
    ELSE slow_run(T, text, start, to, char_idx, slow_step(T, text, start, char_idx, st))

RECURSIVE slow_chunks(_, _, _, _, _, _)
\* for chunk in chunks.iter() { ... }, run Stride iterations at a time
slow_chunks(T, text, start, n, char_idx, st) ==
    IF st.k >= n \/ st.broke THEN st
    ELSE slow_chunks(T, text, start, n, char_idx,
                     slow_run(T, text, start, Min(st.k + Stride, n), char_idx, st))

\* "Take care of any unaligned bytes at the end", and the phases the call
\* went through
to_byte_idx_impl_end(T, text, char_idx, parts, head, fast, slow) ==
    [value |-> scan_bytes(text, slow.byte_count + 1, Len(text), char_idx,
                          scan_from(slow.char_count, slow.byte_count)).byte_count,
     start |-> parts.start,
     head |-> head,
     max_round_len |-> fast_max_round_len(T, char_idx, head.char_count),
     fast_chunks |-> fast.k,
     rounds |-> fast.rounds,
     slow |-> [broke |-> slow.broke,
               chunk_start |-> parts.start + slow.k * T.SIZE,
               char_count |-> slow.char_count,
               byte_count |-> slow.byte_count,
               new_char_count |-> slow.new_char_count]]

\* "Process chunks in the slow path", on the chunks the fast path left
to_byte_idx_impl_slow(T, text, char_idx, parts, head, fast) ==
    to_byte_idx_impl_end(T, text, char_idx, parts, head, fast,
        slow_chunks(T, text, parts.start, parts.middle, char_idx,
                    [k |-> fast.k, char_count |-> fast.char_count,
                     byte_count |-> fast.byte_count,
                     broke |-> FALSE, new_char_count |-> 0]))

\* "Process chunks in the fast path", from the counters of the head
to_byte_idx_impl_fast(T, text, char_idx, parts, head) ==
    to_byte_idx_impl_slow(T, text, char_idx, parts, head,
        fast_rounds(T, text, parts.start, parts.middle,
                    [k |-> 0,
                     max_round_len |-> fast_max_round_len(T, char_idx, head.char_count),
                     char_count |-> head.char_count,
                     byte_count |-> head.byte_count,
                     rounds |-> <<>>]))

\* "Take care of any unaligned bytes at the beginning", on the split `parts`
to_byte_idx_impl_start(T, text, char_idx, parts) ==
    to_byte_idx_impl_fast(T, text, char_idx, parts,
        scan_bytes(text, 1, parts.start, char_idx, scan_from(0, 0)))

\* to_byte_idx_impl::<T>(text, char_idx), with the phases it went through
to_byte_idx_impl_run(T, text, addr, char_idx) ==
    to_byte_idx_impl_start(T, text, char_idx, align_to(text, addr, T))

to_byte_idx_impl(T, text, addr, char_idx) ==
    to_byte_idx_impl_run(T, text, addr, char_idx).value

\* pub fn to_byte_idx(text: &str, char_idx: usize) -> usize
to_byte_idx(text, addr, char_idx) == to_byte_idx_impl(Chunk, text, addr, char_idx)

(***************************************************************************)
(* Boundary snap: from_byte_idx(text, byte_idx).                           *)
(***************************************************************************)
\* mutant: the mask 0x80 for 0xC0
get_is_cont_mask80(text, w) ==
    ~w.wrapped /\ w.i < Len(text) /\ BitAnd(text[w.i + 1], 128) = 128

\* Some(true) == bytes.get(i).map(|byte| (*byte & 0xC0) == 0x80)
\* (an index that wrapped below zero is usize::MAX, past every buffer)
get_is_cont(text, w) == ~w.wrapped /\ w.i < Len(text) /\ is_cont(text[w.i + 1])

\* i -= 1, on a usize: at i == 0 the decrement leaves the buffer
decrement(w) ==
    IF w.i = 0
    THEN [w EXCEPT !.wrapped = TRUE, !.steps = w.steps + 1]
    ELSE [w EXCEPT !.i = w.i - 1, !.steps = w.steps + 1]

RECURSIVE walk_run(_, _, _)
\* at most `fuel` iterations of the walk
walk_run(text, fuel, w) ==
    IF fuel = 0 \/ ~get_is_cont(text, w) THEN w
    ELSE walk_run(text, fuel - 1, decrement(w))

RECURSIVE walk_back(_, _)
\* while Some(true) == bytes.get(i).map(..) { i -= 1; }, Stride iterations at a time
walk_back(text, w) ==
    IF ~get_is_cont(text, w) THEN w
    ELSE walk_back(text, walk_run(text, Stride, w))

\* mutant: the prefix taken up to and including the byte at i
prefix_end_inclusive(text, w) == IF w.wrapped THEN Len(text) ELSE Min(w.i + 1, Len(text))

\* i.min(bytes.len())
prefix_end(text, w) == IF w.wrapped THEN Len(text) ELSE Min(w.i, Len(text))

\* count_impl::<Chunk>(&bytes[0..i.min(bytes.len())]) after the walk w.
\* overflow_checks is the build's setting: with it the decrement at i == 0
\* panics, without it the index wraps to usize::MAX.
count_prefix(text, addr, overflow_checks, w) ==
    [value |-> IF w.wrapped /\ overflow_checks THEN PANIC
               ELSE IF prefix_end(text, w) > Len(text) THEN PANIC
               ELSE count_impl(Chunk, SubSeq(text, 1, prefix_end(text, w)), addr),
     walk |-> w,
     end |-> prefix_end(text, w)]

\* from_byte_idx(text, byte_idx) with the walk it made
from_byte_idx_run(text, addr, byte_idx, overflow_checks) ==
    count_prefix(text, addr, overflow_checks,
                 walk_back(text, [i |-> byte_idx, wrapped |-> FALSE, steps |-> 0]))

\* pub fn from_byte_idx(text: &str, byte_idx: usize) -> usize
from_byte_idx(text, addr, byte_idx, overflow_checks) ==
    from_byte_idx_run(text, addr, byte_idx, overflow_checks).value

(***************************************************************************)
(* Input texts.  A char kind k in 1..4 is encoded in k bytes; kind 0 is a  *)
(* lone continuation byte (malformed input, which only the count engine    *)
(* accepts).  PatText(unit, n) is the longest prefix, in whole chars, of   *)
(* the endless repetition of `unit` that fits in n bytes.                  *)
(***************************************************************************)
Encoding(kind) ==
    CASE kind = 0 -> <<128>>
      [] kind = 1 -> <<65>>
      [] kind = 2 -> <<195, 169>>
      [] kind = 3 -> <<226, 130, 172>>
      [] kind = 4 -> <<240, 159, 152, 128>>

RECURSIVE UnitBytes(_)
UnitBytes(unit) ==
    IF unit = <<>> THEN <<>> ELSE Encoding(Head(unit)) \o UnitBytes(Tail(unit))

RECURSIVE FitChars(_, _)
\* the bytes of the longest prefix of `unit`, in whole chars, of at most r bytes
FitChars(unit, r) ==
    IF unit = <<>> \/ Len(Encoding(Head(unit))) > r THEN 0
    ELSE Len(Encoding(Head(unit))) + FitChars(Tail(unit), r - Len(Encoding(Head(unit))))

PatText(unit, n) ==
    LET ub == UnitBytes(unit)
        ul == Len(ub)
        len == (n \div ul) * ul + FitChars(unit, n % ul)
    IN  [i \in 1..len |-> ub[((i - 1) % ul) + 1]]

\* the number of chars of PatText(unit, n)
PatChars(unit, n) ==
    LET ul == Len(UnitBytes(unit))
        fit == FitChars(unit, n % ul)
    IN  (n \div ul) * Len(unit)
          + Cardinality({j \in 1..Len(unit) :
                           Len(UnitBytes(SubSeq(unit, 1, j))) <= fit})

\* The text is valid UTF-8, as every &str is: each char opens with a lead
\* byte, followed by exactly the continuation bytes the lead byte announces,
\* and is neither overlong, nor a surrogate, nor above U+10FFFF.
\* LeadLen: the length of the chars that start with the byte, 0 when no char
\* does (continuation bytes, 0xC0, 0xC1, 0xF5 and above)
LeadLen(byte) ==
    IF byte < 128 THEN 1
    ELSE IF byte \in 194..223 THEN 2
    ELSE IF byte \in 224..239 THEN 3
    ELSE IF byte \in 240..244 THEN 4
    ELSE 0
IsContByte(byte) == byte \in 128..191
\* the second bytes a lead byte admits
SecondBytes(lead) ==
    CASE lead = 224 -> 160..191
      [] lead = 237 -> 128..159
      [] lead = 240 -> 144..191
      [] lead = 244 -> 128..143
      [] OTHER -> 128..191
WellFormed(text) ==
    /\ Len(text) > 0 => ~IsContByte(text[1])
    /\ \A i \in 1..Len(text) :
         ~IsContByte(text[i]) =>
           LET l == LeadLen(text[i])
           IN  /\ l >= 1
               /\ i + l - 1 <= Len(text)
               /\ \A j \in (i + 1)..(i + l - 1) : IsContByte(text[j])
               /\ l >= 2 => text[i + 1] \in SecondBytes(text[i])
               /\ i + l <= Len(text) => ~IsContByte(text[i + l])

\* char kinds; 0 is the lone continuation byte
CharKinds == 1..4
Kinds == {0} \cup CharKinds
\* repeated units of one or two chars
StrUnits == {<<a>> : a \in CharKinds} \cup {<<a, b>> : a, b \in CharKinds}
Units == {<<a>> : a \in Kinds} \cup {<<a, b>> : a, b \in Kinds}
SoloStrUnits == {<<a>> : a \in CharKinds}
SoloUnits == {<<a>> : a \in Kinds}

\* byte lengths of the tiny texts: a few chars
MaxTinyLen == 8
\* byte lengths of the short texts: up to two chunks and a tail
MaxShortLen == 36
\* byte length of the medium texts: more than MAX_ACC chars of any kind
MediumLen == 1200
\* byte length of the long texts: more than MAX_ACC chunks at any alignment
LongLen == (MAX_ACC + 2) * SIZE

(***************************************************************************)
(* State: a buffer and the last calls made on it.                          *)
(***************************************************************************)
VARIABLES
    text,      \* the bytes of the buffer
    addr,      \* its start address modulo the chunk alignment
    is_str,    \* the buffer is a &str (well-formed UTF-8)
    scalars,   \* the number of chars encoded into it
    calls,     \* number of calls made so far
    op,        \* the last call
    arg,       \* its argument: an index, or the chunk type of count_impl
    result,    \* its return value
    run,       \* what it went through
    prev       \* the call before it
vars == <<text, addr, is_str, scalars, calls, op, arg, result, run, prev>>

NoCall == [op |-> "none", arg |-> 0, result |-> 0]

InitBuffer(unit, n) ==
    /\ text = PatText(unit, n)
    /\ scalars = PatChars(unit, n)
    /\ is_str = WellFormed(text)
    /\ addr \in 0..(SIZE - 1)
    /\ calls = 0
    /\ op = "none"
    /\ arg = 0
    /\ result = 0
    /\ run = <<>>
    /\ prev = NoCall

\* buffers for the count engine: any bytes
InitCount ==
    \/ \E unit \in Units, n \in 0..MaxShortLen : InitBuffer(unit, n)
    \/ \E unit \in SoloUnits : InitBuffer(unit, LongLen)

\* buffers for the seek engine: strings
InitSeek ==
    \/ \E unit \in StrUnits, n \in 0..MaxShortLen : InitBuffer(unit, n)
    \/ \E unit \in StrUnits : InitBuffer(unit, MediumLen)
    \/ \E unit \in SoloStrUnits : InitBuffer(unit, LongLen)

\* buffers for the boundary snap: strings
InitSnap ==
    \/ \E unit \in StrUnits, n \in (0..MaxTinyLen) \cup {MaxShortLen} : InitBuffer(unit, n)
    \/ \E unit \in SoloStrUnits : InitBuffer(unit, MediumLen)

\* buffers with enough chunks for full accumulation rounds
InitRounds ==
    \/ \E unit \in SoloUnits : InitBuffer(unit, LongLen)
    \/ \E unit \in Units : InitBuffer(unit, MediumLen)

Called(o, a, r) ==
    /\ calls' = calls + 1
    /\ op' = o
    /\ arg' = a
    /\ result' = r.value
    /\ run' = r
    /\ prev' = [op |-> op, arg |-> arg, result |-> result]
    /\ UNCHANGED <<text, addr, is_str, scalars>>

\* count(text)
Count ==
    /\ calls = 0
    /\ Called("count", 0, count_impl_run(Chunk, text, addr))

\* count_impl::<T>(bytes) for another chunk type
CountImpl(T) ==
    /\ calls = 0
    /\ Called("count_impl", T, count_impl_run(T, text, addr))

\* the builds whose results differ on this call: the overflow check of the
\* build only shows when the walk decrements at 0
Builds(byte_idx) ==
    IF walk_back(text, [i |-> byte_idx, wrapped |-> FALSE, steps |-> 0]).wrapped
    THEN BOOLEAN ELSE {FALSE}

\* from_byte_idx(text, byte_idx)
FromByteIdx(byte_idx) ==
    /\ calls = 0
    /\ is_str
    /\ \E oc \in Builds(byte_idx) :
         Called("from_byte_idx", byte_idx, from_byte_idx_run(text, addr, byte_idx, oc))

\* from_byte_idx(text, j) after from_byte_idx(text, i), i <= j
FromByteIdxAgain(byte_idx) ==
    /\ calls = 1
    /\ op = "from_byte_idx"
    /\ byte_idx >= arg
    /\ \E oc \in Builds(byte_idx) :
         Called("from_byte_idx", byte_idx, from_byte_idx_run(text, addr, byte_idx, oc))

\* to_byte_idx(text, char_idx)
ToByteIdx(char_idx) ==
    /\ calls = 0
    /\ is_str
    /\ Called("to_byte_idx", char_idx, to_byte_idx_impl_run(Chunk, text, addr, char_idx))

\* to_byte_idx(text, from_byte_idx(text, b)): the round trip
ToByteIdxOfResult ==
    /\ calls = 1
    /\ op = "from_byte_idx"
    /\ result # PANIC
    /\ Called("to_byte_idx", result, to_byte_idx_impl_run(Chunk, text, addr, result))

\* the chunk types count_impl, generic in T, is tried with: the width of
\* Chunk with a smaller round size, and half and twice that width
ChunkTypes ==
    {[SIZE |-> SIZE, MAX_ACC |-> m] : m \in {1, 2, SIZE}}
      \cup {[SIZE |-> w, MAX_ACC |-> MAX_ACC] : w \in {SIZE \div 2, 2 * SIZE}}

\* probes around the ends and the chunk and round boundaries of a large range
Probes(n) ==
    {0, 1, SIZE - 1, SIZE, SIZE + 1, n \div 2,
     MAX_ACC - 1, MAX_ACC, MAX_ACC + 1, 2 * MAX_ACC, 2 * MAX_ACC + SIZE + 1,
     4 * MAX_ACC + 3, n - 2, n - 1, n, n + 1, n + 2}
\* char indices that send the fast path through whole rounds
RoundProbes ==
    {MAX_ACC * MAX_ACC - 1, MAX_ACC * MAX_ACC, MAX_ACC * (MAX_ACC + 1),
     MAX_ACC * (MAX_ACC + 2) + 1, 2 * MAX_ACC * MAX_ACC}

ByteIdxArgs ==
    IF Len(text) <= MaxShortLen THEN 0..(Len(text) + 2)
    ELSE {b \in Probes(Len(text)) : b >= 0}
CharIdxArgs ==
    (IF Len(text) <= MaxShortLen THEN 0..(scalars + 1) \cup {MAX_ACC, 2 * MAX_ACC + SIZE + 1}
     ELSE {c \in Probes(scalars) : c >= 0}) \cup RoundProbes

NextCount ==
    \/ Count
    \/ \E T \in ChunkTypes : CountImpl(T)

NextSeek == \E c \in CharIdxArgs : ToByteIdx(c)

NextSnap ==
    \/ \E b \in ByteIdxArgs : FromByteIdx(b)
    \/ \E b \in ByteIdxArgs : FromByteIdxAgain(b)
    \/ ToByteIdxOfResult

NextRounds ==
    \/ Count
    \/ \E c \in CharIdxArgs : ToByteIdx(c)

\* one specification per engine, each over the buffers that exercise it
SpecCount == InitCount /\ [][NextCount]_vars
SpecSeek == InitSeek /\ [][NextSeek]_vars
SpecSnap == InitSnap /\ [][NextSnap]_vars
SpecRounds == InitRounds /\ [][NextRounds]_vars

(***************************************************************************)
(* Reference notions, stated on the bytes alone.                           *)
(***************************************************************************)
\* continuation bytes of the whole text
NumConts(t) == Cardinality({i \in 1..Len(t) : IsContByte(t[i])})
\* continuation bytes at the offsets a .. b-1
ContsIn(t, a, b) == Cardinality({i \in (a + 1)..b : IsContByte(t[i])})
\* char-start bytes at the offsets below b
StartsBefore(t, b) == Cardinality({i \in 1..Min(b, Len(t)) : ~IsContByte(t[i])})
NumStarts(t) == StartsBefore(t, Len(t))
\* offset b is the first byte of a char, or the end of the text
IsBoundary(t, b) == b = Len(t) \/ (b < Len(t) /\ ~IsContByte(t[b + 1]))
\* b is what the naive per-byte scan returns for char index c: the offset
\* of the first byte of char c, or the byte length when there is no char c
IsByteIdxOf(t, c, b) ==
    IF c < NumStarts(t)
    THEN b < Len(t) /\ ~IsContByte(t[b + 1]) /\ StartsBefore(t, b) = c
    ELSE b = Len(t)
\* offset b does not lie past what the naive scan returns for char index c
\* (no more than c chars start before b)
NotPastByteIdxOf(t, c, b) == b <= Len(t) /\ StartsBefore(t, b) <= c
\* the index of the char whose encoding holds the byte at offset b < Len(t)
CharIdxOf(t, b) == StartsBefore(t, b + 1) - 1

(***************************************************************************)
(* C1: count returns the number of bytes that are not continuation bytes,  *)
(* length minus the number of continuation bytes, for every byte sequence, *)
(* length and alignment; for a well-formed text this is the number of      *)
(* scalar values encoded in it.                                            *)
(***************************************************************************)
Thm_C1 ==
    op = "count" =>
        /\ result = Len(text) - NumConts(text)
        /\ is_str => result = scalars
\* a multi-byte string of more than MAX_ACC chunks at an unaligned address
Wit_C1 ==
    /\ op = "count"
    /\ is_str
    /\ addr # 0
    /\ Len(run.rounds) >= 2
    /\ run.rounds[1].len = MAX_ACC
    /\ result < Len(text)
    /\ result = scalars

(***************************************************************************)
(* C8, as claimed: whatever the chunk width, the round size and the split  *)
(* (alignment), the count is that of the byte-by-byte scan of the short    *)
(* path.                                                                   *)
(***************************************************************************)
Cex_C8 ==
    op \in {"count", "count_impl"} =>
        result = count_starts(text, 0, Len(text), 0)

(***************************************************************************)
(* C8, amended: for a chunk type 16 bytes wide, whatever its round size    *)
(* and the split (alignment), the count is that of the byte-by-byte scan   *)
(* of the short path; for a chunk type of any other width count_impl       *)
(* panics on every text, on its width assertion.                           *)
(***************************************************************************)
Thm_C8 ==
    /\ op = "count" => result = count_starts(text, 0, Len(text), 0)
    /\ op = "count_impl" =>
          IF size_of(arg) = 16
          THEN result = count_starts(text, 0, Len(text), 0)
          ELSE result = PANIC
\* rounds of one chunk each, with a head and a tail around the middle
Wit_C8 ==
    /\ op = "count_impl"
    /\ arg.MAX_ACC = 1
    /\ run.chunked
    /\ Len(run.rounds) >= 2
    /\ run.start > 0
    /\ align_to(text, addr, Chunk).end > 0
    /\ 0 < result
    /\ result < Len(text)

(***************************************************************************)
(* C2: for a well-formed text, to_byte_idx returns what the naive per-byte *)
(* scan returns: the offset of the first byte of char char_idx, or the     *)
(* byte length when char_idx is at or past the char count; never an offset *)
(* inside a multi-byte encoding.                                           *)
(***************************************************************************)
Thm_C2 ==
    op = "to_byte_idx" =>
        /\ IsByteIdxOf(text, arg, result)
        /\ IsBoundary(text, result)
        /\ arg = NumStarts(text) => result = Len(text)
\* a multi-byte target in range, reached through head, fast rounds, slow
\* chunks and byte scan
Wit_C2 ==
    /\ op = "to_byte_idx"
    /\ arg < NumStarts(text)
    /\ run.start > 0
    /\ ~run.head.broke
    /\ Len(run.rounds) >= 1
    /\ run.slow.broke
    /\ run.slow.byte_count > run.start + run.fast_chunks * SIZE
    /\ result > run.slow.byte_count
    /\ text[result + 1] >= 192

(***************************************************************************)
(* C7: the fast-skip phase never overshoots: after every round the char    *)
(* counter is at most char_idx and the byte counter is at most the offset  *)
(* the naive scan returns, and the phase consumes at most                  *)
(* floor((char_idx - char count after the head) / MAX_ACC) chunks.         *)
(***************************************************************************)
Thm_C7 ==
    op = "to_byte_idx" =>
        /\ \A k \in 1..Len(run.rounds) :
             /\ run.rounds[k].char_count <= arg
             /\ NotPastByteIdxOf(text, arg, run.rounds[k].byte_count)
        /\ run.fast_chunks <= Max(0, arg - run.head.char_count) \div MAX_ACC
\* a target in range after a round of several chunks that used up the allowance
Wit_C7 ==
    /\ op = "to_byte_idx"
    /\ arg < NumStarts(text)
    /\ Len(run.rounds) >= 1
    /\ run.rounds[1].len >= 2
    /\ run.fast_chunks = (arg - run.head.char_count) \div MAX_ACC
    /\ run.head.char_count > 0

(***************************************************************************)
(* C9, as claimed: whenever the slow phase stops before a middle chunk,    *)
(* the offset returned lies in that chunk: at or after its start offset    *)
(* and before its start offset + SIZE.                                     *)
(***************************************************************************)
Cex_C9 ==
    (op = "to_byte_idx" /\ run.slow.broke) =>
        /\ result >= run.slow.chunk_start
        /\ result < run.slow.chunk_start + SIZE

(***************************************************************************)
(* C9, amended: whenever the slow phase stops before a middle chunk, then  *)
(* if the head scan had already stopped at the target, the offset returned *)
(* is the head's and lies before the chunk; otherwise it is at or after    *)
(* the chunk's start and at most 3 bytes past its end, and it is inside    *)
(* the chunk exactly when the count with the chunk consumed exceeds        *)
(* char_idx (when it equals char_idx, the target is the first boundary at  *)
(* or after the chunk's end).                                              *)
(***************************************************************************)
Thm_C9 ==
    (op = "to_byte_idx" /\ run.slow.broke) =>
        IF run.head.broke
        THEN /\ result = run.head.byte_count
             /\ result < run.slow.chunk_start
        ELSE /\ result >= run.slow.chunk_start
             /\ result <= run.slow.chunk_start + SIZE + 3
             /\ result < run.slow.chunk_start + SIZE <=> run.slow.new_char_count > arg
\* the count with the chunk consumed equals char_idx and the target starts
\* past continuation bytes at the head of the next chunk
Wit_C9 ==
    /\ op = "to_byte_idx"
    /\ run.slow.broke
    /\ ~run.head.broke
    /\ run.slow.chunk_start > run.start
    /\ run.slow.new_char_count = arg
    /\ result > run.slow.chunk_start + SIZE
    /\ result < Len(text)

(***************************************************************************)
(* C6: every accumulation round of count_impl and of the fast-skip phase   *)
(* of to_byte_idx_impl adds at most MAX_ACC chunks into the accumulator,   *)
(* so no lane addition wraps (no lane passes 255) and the round's          *)
(* horizontal sum is the number of continuation bytes in its chunks.       *)
(***************************************************************************)
RoundsExact(rounds, start) ==
    \A k \in 1..Len(rounds) :
        /\ rounds[k].len <= MAX_ACC
        /\ ~rounds[k].carried
        /\ rounds[k].peak <= LaneMod - 1
        /\ rounds[k].sum = ContsIn(text, start + rounds[k].first * SIZE,
                                   start + (rounds[k].first + rounds[k].len) * SIZE)
Thm_C6 ==
    op \in {"count", "to_byte_idx"} => RoundsExact(run.rounds, run.start)
\* a fast-skip round of MAX_ACC chunks that fills a lane to 255, then another
Wit_C6 ==
    /\ op = "to_byte_idx"
    /\ Len(run.rounds) >= 2
    /\ run.rounds[1].len = MAX_ACC
    /\ run.rounds[1].peak = LaneMod - 1
    /\ run.rounds[1].sum > 0

(***************************************************************************)
(* C3: for a well-formed text, from_byte_idx returns the index of the char *)
(* whose encoding holds the byte at byte_idx (a continuation byte          *)
(* included) when byte_idx is in range, and the char count otherwise.      *)
(***************************************************************************)
Thm_C3 ==
    op = "from_byte_idx" =>
        IF arg < Len(text)
        THEN result = CharIdxOf(text, arg)
        ELSE result = NumStarts(text)
\* the last byte of a 4-byte char, after a prefix of more than a chunk
Wit_C3 ==
    /\ op = "from_byte_idx"
    /\ arg < Len(text)
    /\ arg > 2 * SIZE
    /\ run.walk.steps = 3
    /\ addr # 0
    /\ 0 < result
    /\ result < NumStarts(text) - 1

(***************************************************************************)
(* C4: round trip.  For every char boundary b of a well-formed text (the   *)
(* first byte of a char, or the byte length),                              *)
(* to_byte_idx(s, from_byte_idx(s, b)) = b.                                *)
(***************************************************************************)
Thm_C4 ==
    (/\ op = "to_byte_idx"
     /\ prev.op = "from_byte_idx"
     /\ arg = prev.result
     /\ IsBoundary(text, prev.arg)) => result = prev.arg
\* a multi-byte boundary reached through fast rounds and slow chunks
Wit_C4 ==
    /\ op = "to_byte_idx"
    /\ prev.op = "from_byte_idx"
    /\ arg = prev.result
    /\ IsBoundary(text, prev.arg)
    /\ prev.arg < Len(text)
    /\ text[prev.arg + 1] >= 192
    /\ Len(run.rounds) >= 1
    /\ run.slow.broke
    /\ result = prev.arg

(***************************************************************************)
(* C5: for a well-formed text and byte offsets i <= j in [0, byte length], *)
(* from_byte_idx(s, i) lies in [0, count(s)] and                           *)
(* from_byte_idx(s, i) <= from_byte_idx(s, j).                             *)
(***************************************************************************)
Thm_C5 ==
    (op = "from_byte_idx" /\ arg <= Len(text)) =>
        /\ 0 <= result
        /\ result <= NumStarts(text)
        /\ (prev.op = "from_byte_idx" /\ prev.arg <= arg) => prev.result <= result
\* i inside a multi-byte char, j in a later char, both past the first chunk
Wit_C5 ==
    /\ op = "from_byte_idx"
    /\ prev.op = "from_byte_idx"
    /\ prev.arg > SIZE
    /\ prev.arg < arg
    /\ arg < Len(text)
    /\ IsContByte(text[prev.arg + 1])
    /\ prev.result < result

(***************************************************************************)
(* C10: on a well-formed text, for every byte_idx, the backward walk of    *)
(* from_byte_idx never decrements at i = 0, it stops at a char-start byte  *)
(* or at an index at or past the byte length, and the prefix handed to the *)
(* count engine ends within the buffer.                                    *)
(***************************************************************************)
Thm_C10 ==
    op = "from_byte_idx" =>
        /\ ~run.walk.wrapped
        /\ run.walk.i >= Len(text) \/ ~IsContByte(text[run.walk.i + 1])
        /\ run.end = Min(run.walk.i, Len(text))
        /\ run.end <= Len(text)
        /\ result # PANIC
\* the walk from the last byte of a leading 4-byte char stops at offset 0
Wit_C10 ==
    /\ op = "from_byte_idx"
    /\ arg = 3
    /\ run.walk.steps = 3
    /\ run.walk.i = 0
    /\ run.end = 0
    /\ result = 0

====
